---- MODULE Spec2Model ----
(***************************************************************************)
(* Verification model of psb-e-tracker: the MapView camera-follow          *)
(* controller and telemetry polling (src/src/components/MapView.tsx), the  *)
(* Bus3DModel render entity imported by MapView                            *)
(* (src/src/components/Bus3DModel.tsx, lines 13-252) and the zoom-scaled   *)
(* Bus3DModel variant (src/unnamed/part_000, lines 16-479).                *)
(*                                                                         *)
(* Four specifications share the module:                                   *)
(*   Spec           MapView: selection, deselection, polling, camera       *)
(*   SpecEntity     Bus3DModel.tsx: layer / marker / asset lifecycle and   *)
(*                  the layer order against the route layers               *)
(*   SpecEntity_v2  Bus3DModel.tsx, second variant (lines 268-512)         *)
(*   SpecZoom       part_000: per-frame transform of the zoom-scaled       *)
(*                  variant                                                *)
(*                                                                         *)
(* Units: zoom and bearing are kept in tenths (15.7 -> 157, 8.80 -> 88),   *)
(* pitch in whole degrees, geographic coordinates are small integers.     *)
(***************************************************************************)
EXTENDS Integers, Sequences, FiniteSets, Bags, TLC

\* ------------------------------------------------------------------------
\* Bounds of the model
\* ------------------------------------------------------------------------
\* number of fetches that may be pending at the same time
MaxPending == 2

\* number of addModelLayer calls (layers, asset loads) followed per vehicle id
MaxLayers == 2

\* the camera zooms the frames are rendered at, in tenths: from ZoomMin (13.0)
\* to ZoomMax (18.0)
ZoomMin == 130

ZoomMax == 180

\* number of setTimeout callbacks of updateModelPosition that may be
\* outstanding per vehicle id
MaxTimeouts == 2

\* number of paths of the longest route handed to RouteLayer
MaxPaths == 2

\* ------------------------------------------------------------------------
\* Data
\* ------------------------------------------------------------------------
\* null of JavaScript (a record, so that it compares with records)
Null == [null |-> TRUE]

\* Heading missing from a telemetry record (undefined)
NoHeading == -1

\* VehicleTelemetry records of the feed (BusData, the fields the core reads)
BusData ==
  { [VehicleId |-> 1, Longitude |-> 1, Latitude |-> 1, Heading |-> NoHeading],
    [VehicleId |-> 1, Longitude |-> 2, Latitude |-> 1, Heading |-> 90],
    [VehicleId |-> 2, Longitude |-> 2, Latitude |-> 2, Heading |-> 180] }

VehicleIds == { b.VehicleId : b \in BusData }

\* the lists a telemetry response can carry: ids distinct, ordered by id
Feeds ==
  { <<>> } \cup { <<b>> : b \in BusData }
  \cup { <<a, b>> : a \in { x \in BusData : x.VehicleId = 1 },
                    b \in { x \in BusData : x.VehicleId = 2 } }

\* responses of the telemetry endpoint: the HTTP status and the JSON body
Responses ==
  { [ ok |-> TRUE, body |-> f ] : f \in Feeds } \cup { [ ok |-> FALSE, body |-> <<>> ] }

\* the five interaction handlers of the map
Handlers == { "dragPan", "scrollZoom", "doubleClickZoom", "touchZoomRotate",
              "keyboard" }

\* camera pose the map is constructed with
InitialPose == [ center |-> <<0, 0>>, zoom |-> 157, pitch |-> 43, bearing |-> 88 ]

\* a pose the user can bring the camera to by panning / zooming / rotating
UserPoses == { InitialPose,
               [ center |-> <<3, 3>>, zoom |-> 140, pitch |-> 0, bearing |-> 0 ] }

VARIABLES
  map,                 \* map.current: camera, ease in flight, listeners, handlers,
                       \* the layers added to the style (bottom to top)
  buses,               \* useState buses
  selectedBus,         \* useState selectedBus
  showInfoPanel,       \* useState showInfoPanel
  isMapLoaded,         \* useState isMapLoaded
  previousMapPosition, \* useState previousMapPosition
  interval,            \* the armed setInterval: the closure of loadBusData it calls
  pending,             \* loadBusData calls awaiting fetchBusLocations (a bag of closures)
  toasts,              \* sonner: what fetchBusLocations notified of its last request
  routeData,           \* useState routeData
  ent,                 \* Bus3DModel.tsx: per VehicleId, the component instance,
                       \* its refs, its layer and marker on the map, its assets
  zent,                \* part_000: one instance of the zoom-scaled Bus3DModel
  routeLayer,          \* Bus3DModel.tsx: the RouteLayer component instance
  polls                \* loadBusData calls awaiting fetchBusLocations, in the
                       \* order they were issued

mapViewVars == << map, buses, selectedBus, showInfoPanel, isMapLoaded,
                  previousMapPosition, interval, pending, toasts, routeData >>

entityVars == << ent >>

zoomVars == << zent >>

routeVars == << routeLayer >>

pollVars == << polls >>

\* ------------------------------------------------------------------------
\* MapView derived state
\* ------------------------------------------------------------------------
isFollowingBus == selectedBus # Null /\ showInfoPanel

\* the values of the render a loadBusData closure was created in
Closure == [ following |-> isFollowingBus,
             selId |-> IF selectedBus = Null THEN 0 ELSE selectedBus.VehicleId ]

\* ------------------------------------------------------------------------
\* The map (mapbox-gl Map as MapView drives it)
\* ------------------------------------------------------------------------
\* the five handlers are disabled, then map.removeControl takes one entry of
\* the navigation control out of the controls of the map (indexOf, splice)
disableMapInteractions(m) ==
  [ m EXCEPT !.handlers = [ h \in Handlers |-> FALSE ],
             !.controls = IF @ > 0 THEN @ - 1 ELSE 0,
             !.navOnMap = m.controls > 1 ]

\* faulty variant of enableMapInteractions: map.addControl without the test
\* of map.hasControl (C29 must reject it)
enableMapInteractions_addsAlways(m) ==
  [ m EXCEPT !.handlers = [ h \in Handlers |-> TRUE ],
             !.controls = @ + 1,
             !.navOnMap = TRUE ]

\* the five handlers are enabled, then map.addControl unless
\* map.hasControl(navigationControl.current)
enableMapInteractions(m) ==
  [ m EXCEPT !.handlers = [ h \in Handlers |-> TRUE ],
             !.controls = IF m.navOnMap THEN @ ELSE @ + 1,
             !.navOnMap = TRUE ]

\* a 'moveend' event: every one-shot listener runs and is dropped
FireMoveend(m) ==
  IF m.moveendOnce > 0
  THEN [ disableMapInteractions(m) EXCEPT !.moveendOnce = 0 ]
  ELSE m

\* map.once('moveend', disableMapInteractions)
OnceMoveend(m) == [ m EXCEPT !.moveendOnce = @ + 1 ]

\* Camera.stop(): an ease in flight is abandoned and its 'moveend' is fired
Stop(m) ==
  IF m.anim # Null THEN FireMoveend([ m EXCEPT !.anim = Null ]) ELSE m

\* map.flyTo(target): supersedes the ease in flight and starts a new one
FlyTo(m, target) == [ Stop(m) EXCEPT !.anim = target ]

\* map.setCenter(c); map.setBearing(b): each a jumpTo, which stops the ease
\* in flight, moves the camera at once and fires 'moveend'
SetCenter(m, c) == FireMoveend([ Stop(m) EXCEPT !.camera.center = c ])

SetBearing(m, b) == FireMoveend([ Stop(m) EXCEPT !.camera.bearing = b ])

\* bus.Heading || 0, in tenths of a degree
HeadingOr0(bus) == IF bus.Heading = NoHeading THEN 0 ELSE bus.Heading * 10

\* ------------------------------------------------------------------------
\* MapView operations
\* ------------------------------------------------------------------------
\* map 'load' event: setIsMapLoaded(true), first loadBusData(), and the
\* polling effect arms the interval with the closure of the new render
MapLoad ==
  /\ ~isMapLoaded
  /\ isMapLoaded' = TRUE
  /\ pending' = pending (+) SetToBag({ Closure })
  /\ interval' = Closure
  /\ UNCHANGED << map, buses, selectedBus, showInfoPanel, previousMapPosition >>
  /\ UNCHANGED << toasts, routeData, entityVars, zoomVars, routeVars, pollVars >>

\* an interval tick calls the loadBusData of the render the interval was
\* armed in; the call suspends at await fetchBusLocations()
loadBusData_call ==
  /\ interval # Null
  /\ BagCardinality(pending) < MaxPending
  /\ pending' = pending (+) SetToBag({ interval })
  /\ UNCHANGED << map, buses, selectedBus, showInfoPanel, isMapLoaded,
                  previousMapPosition, interval >>
  /\ UNCHANGED << toasts, routeData, entityVars, zoomVars, routeVars, pollVars >>

\* fetchBusLocations: a failed request or a non-OK status yields []
fetchBusLocations(resp) == IF resp.ok THEN resp.body ELSE <<>>

\* data.find(bus => bus.VehicleId === id)
Find(data, id) ==
  IF \E i \in 1..Len(data) : data[i].VehicleId = id
  THEN data[CHOOSE i \in 1..Len(data) :
              /\ data[i].VehicleId = id
              /\ \A j \in 1..(i - 1) : data[j].VehicleId # id]
  ELSE Null

\* faulty variant of loadBusData_resume: setBuses(data) without the test of
\* data.length (C16 must reject it)
loadBusData_resume_setsEmpty(c, data) ==
  /\ BagIn(c, pending)
  /\ pending' = pending (-) SetToBag({ c })
  /\ LET updatedSelectedBus == Find(data, c.selId)
         follow == /\ Len(data) > 0
                   /\ c.following
                   /\ updatedSelectedBus # Null
     IN /\ buses' = data
        /\ selectedBus' = IF follow THEN updatedSelectedBus ELSE selectedBus
        /\ map' = IF follow
                  THEN SetBearing(
                         SetCenter(map, << updatedSelectedBus.Longitude,
                                           updatedSelectedBus.Latitude >>),
                         HeadingOr0(updatedSelectedBus))
                  ELSE map
        /\ interval' = IF follow
                       THEN [ following |-> showInfoPanel,
                              selId |-> updatedSelectedBus.VehicleId ]
                       ELSE interval
  /\ UNCHANGED << showInfoPanel, isMapLoaded, previousMapPosition >>
  /\ UNCHANGED << routeData, entityVars, zoomVars, routeVars, pollVars >>

\* loadBusData resumes after the await with the values c of its closure
loadBusData_apply(c, data) ==
  /\ LET updatedSelectedBus == Find(data, c.selId)
         follow == /\ Len(data) > 0
                   /\ c.following
                   /\ updatedSelectedBus # Null
     IN /\ buses' = IF Len(data) > 0 THEN data ELSE buses
        /\ selectedBus' = IF follow THEN updatedSelectedBus ELSE selectedBus
        /\ map' = IF follow
                  THEN SetBearing(
                         SetCenter(map, << updatedSelectedBus.Longitude,
                                           updatedSelectedBus.Latitude >>),
                         HeadingOr0(updatedSelectedBus))
                  ELSE map
        \* polling effect, deps [isMapLoaded, selectedBus]: re-armed with the
        \* closure of the new render when selectedBus was replaced
        /\ interval' = IF follow
                       THEN [ following |-> showInfoPanel,
                              selId |-> updatedSelectedBus.VehicleId ]
                       ELSE interval
  /\ UNCHANGED << showInfoPanel, isMapLoaded, previousMapPosition >>

\* a pending loadBusData call resumes and ends
loadBusData_resume(c, data) ==
  /\ BagIn(c, pending)
  /\ pending' = pending (-) SetToBag({ c })
  /\ loadBusData_apply(c, data)
  /\ UNCHANGED << routeData, entityVars, zoomVars, routeVars, pollVars >>

\* one loadBusData call from the response of its fetch to its end:
\* fetchBusLocations notifies the failure it swallows (toast.error), then
\* loadBusData resumes with the list
loadBusData(c, resp) ==
  /\ loadBusData_resume(c, fetchBusLocations(resp))
  /\ toasts' = IF resp.ok THEN {} ELSE { "Could not retrieve bus locations" }

\* ------------------------------------------------------------------------
\* The same calls with the pending ones kept in the order of their issue
\* (polls): each entry carries its closure and whether a call issued after
\* it has already written its list (late)
\* ------------------------------------------------------------------------
\* map 'load' event, as MapLoad
MapLoad_ordered ==
  /\ ~isMapLoaded
  /\ isMapLoaded' = TRUE
  /\ polls' = Append(polls, [ closure |-> Closure, late |-> FALSE ])
  /\ interval' = Closure
  /\ UNCHANGED << map, buses, selectedBus, showInfoPanel,
                  previousMapPosition, pending >>
  /\ UNCHANGED << toasts, routeData, entityVars, zoomVars, routeVars >>

\* an interval tick, as loadBusData_call
loadBusData_call_ordered ==
  /\ interval # Null
  /\ Len(polls) < MaxPending
  /\ polls' = Append(polls, [ closure |-> interval, late |-> FALSE ])
  /\ UNCHANGED << map, buses, selectedBus, showInfoPanel, isMapLoaded,
                  previousMapPosition, interval, pending >>
  /\ UNCHANGED << toasts, routeData, entityVars, zoomVars, routeVars >>

\* the i-th pending call gets the response of its fetch, resumes and ends,
\* as loadBusData; the calls issued before it that are still pending are
\* late once it has written its list
loadBusData_ordered(i, resp) ==
  /\ i \in 1..Len(polls)
  /\ loadBusData_apply(polls[i].closure, fetchBusLocations(resp))
  /\ toasts' = IF resp.ok THEN {} ELSE { "Could not retrieve bus locations" }
  /\ polls' = [ j \in 1..(Len(polls) - 1) |->
                 IF j < i
                 THEN [ polls[j] EXCEPT
                          !.late = @ \/ Len(fetchBusLocations(resp)) > 0 ]
                 ELSE polls[j + 1] ]
  /\ UNCHANGED << pending, routeData, entityVars, zoomVars, routeVars >>

\* click on the marker of a rendered bus
handleBusClick(bus) ==
  /\ \E i \in 1..Len(buses) : buses[i] = bus
  /\ previousMapPosition' = map.camera
  /\ selectedBus' = bus
  /\ showInfoPanel' = TRUE
  /\ map' = OnceMoveend(
              FlyTo(map, [ center |-> << bus.Longitude, bus.Latitude >>,
                           zoom |-> 180, pitch |-> 60,
                           bearing |-> HeadingOr0(bus) ]))
  /\ interval' = IF isMapLoaded
                 THEN [ following |-> TRUE, selId |-> bus.VehicleId ]
                 ELSE interval
  /\ UNCHANGED << buses, isMapLoaded, pending >>
  /\ UNCHANGED << toasts, routeData, entityVars, zoomVars, routeVars, pollVars >>

\* faulty variant of handleInfoPanelClose: flies back to the pose the map was
\* constructed with instead of the saved one (C1 must reject it)
handleInfoPanelClose_toInitialPose ==
  /\ selectedBus # Null /\ showInfoPanel
  /\ showInfoPanel' = FALSE
  /\ selectedBus' = Null
  /\ map' = FlyTo(enableMapInteractions(map), InitialPose)
  /\ previousMapPosition' = Null
  /\ interval' = IF isMapLoaded THEN [ following |-> FALSE, selId |-> 0 ]
                 ELSE interval
  /\ UNCHANGED << buses, isMapLoaded, pending >>
  /\ UNCHANGED << toasts, routeData, entityVars, zoomVars, routeVars, pollVars >>

\* click on the close button of the info panel (rendered when selectedBus is
\* set, reachable by the pointer when the panel is visible)
handleInfoPanelClose ==
  /\ isFollowingBus
  /\ showInfoPanel' = FALSE
  /\ selectedBus' = Null
  /\ LET m == enableMapInteractions(map)
     IN IF previousMapPosition # Null
        THEN /\ map' = FlyTo(m, previousMapPosition)
             /\ previousMapPosition' = Null
        ELSE /\ map' = m
             /\ UNCHANGED previousMapPosition
  /\ interval' = IF isMapLoaded THEN [ following |-> FALSE, selId |-> 0 ]
                 ELSE interval
  /\ UNCHANGED << buses, isMapLoaded, pending >>
  /\ UNCHANGED << toasts, routeData, entityVars, zoomVars, routeVars, pollVars >>

\* ------------------------------------------------------------------------
\* The environment of MapView: the animation scheduler and the user
\* ------------------------------------------------------------------------
\* a pose the camera passes through during a flight: one that is neither
\* the pose the flight started from nor its target
Midway(cam, target) == [ cam EXCEPT !.pitch = target.pitch ]

\* one animation frame of the ease in flight
AnimFrame ==
  /\ map.anim # Null
  /\ map.camera # Midway(map.camera, map.anim)
  /\ map.camera # map.anim
  /\ map' = [ map EXCEPT !.camera = Midway(map.camera, map.anim) ]
  /\ UNCHANGED << buses, selectedBus, showInfoPanel, isMapLoaded,
                  previousMapPosition, interval, pending >>
  /\ UNCHANGED << toasts, routeData, entityVars, zoomVars, routeVars, pollVars >>

\* the ease in flight reaches its target: 'moveend'
AnimEnd ==
  /\ map.anim # Null
  /\ map' = FireMoveend([ map EXCEPT !.camera = map.anim, !.anim = Null ])
  /\ UNCHANGED << buses, selectedBus, showInfoPanel, isMapLoaded,
                  previousMapPosition, interval, pending >>
  /\ UNCHANGED << toasts, routeData, entityVars, zoomVars, routeVars, pollVars >>

\* a user gesture (drag, scroll, rotate, keys), possible while the handlers
\* are enabled: it stops the ease in flight and ends with 'moveend'
UserMove(pose) ==
  /\ \A h \in Handlers : map.handlers[h]
  /\ pose # map.camera
  /\ map' = FireMoveend([ Stop(map) EXCEPT !.camera = pose ])
  /\ UNCHANGED << buses, selectedBus, showInfoPanel, isMapLoaded,
                  previousMapPosition, interval, pending >>
  /\ UNCHANGED << toasts, routeData, entityVars, zoomVars, routeVars, pollVars >>

\* faulty variant of MapView_unmount: the polling effect has no cleanup and
\* the interval outlives the component (C28 must reject it)
MapView_unmount_keepsInterval ==
  /\ ~map.removed
  /\ map' = [ map EXCEPT !.removed = TRUE, !.anim = Null, !.moveendOnce = 0 ]
  /\ UNCHANGED << buses, selectedBus, showInfoPanel, isMapLoaded,
                  previousMapPosition, interval, pending >>
  /\ UNCHANGED << toasts, routeData, entityVars, zoomVars, routeVars, pollVars >>

\* MapView unmounts: the cleanup of the polling effect clears the interval
\* and the cleanup of the map effect removes the map (map.remove() stops
\* the camera and drops the listeners; map.current = null)
MapView_unmount ==
  /\ ~map.removed
  /\ interval' = Null
  /\ map' = [ map EXCEPT !.removed = TRUE, !.anim = Null, !.moveendOnce = 0 ]
  /\ UNCHANGED << buses, selectedBus, showInfoPanel, isMapLoaded,
                  previousMapPosition, pending >>
  /\ UNCHANGED << toasts, routeData, entityVars, zoomVars, routeVars, pollVars >>

\* a loadBusData call that resumes after the unmount: the state setters of
\* an unmounted component do nothing and map.current is null
loadBusData_unmounted(c, resp) ==
  /\ map.removed
  /\ BagIn(c, pending)
  /\ pending' = pending (-) SetToBag({ c })
  /\ toasts' = IF resp.ok THEN {} ELSE { "Could not retrieve bus locations" }
  /\ UNCHANGED << map, buses, selectedBus, showInfoPanel, isMapLoaded,
                  previousMapPosition, interval >>
  /\ UNCHANGED << routeData, entityVars, zoomVars, routeVars, pollVars >>

\* ------------------------------------------------------------------------
\* Bus3DModel (src/src/components/Bus3DModel.tsx, lines 13-252)
\*
\* Per VehicleId:
\*   mounted    a component instance with this key exists
\*   mountGen   number of the first layer of the current instance
\*   gen        addModelLayer calls made so far; layer, scene and loaded
\*              asset number k are those of the k-th call
\*   bus        the bus prop of the last effect run
\*   markerRef  markerRef.current: Null or the marker's LngLat
\*   markers    markers of this entity attached to the map
\*   layer      number of the layer 'bus-model-<id>' on the map, 0 if none
\*   layerBus   the bus the modelTransform of that layer was computed from
\*   modelTransform  the modelTransform the layer's render function closes
\*              over, Null without a layer
\*   modelRef   modelRef.current: Null or [scene, busModel] (busModel 0:
\*              undefined)
\*   loading    layers whose loader.load has not called back yet
\*   failed     layers whose loader.load called onError
\*   inScene    loaded assets attached to the scene of their layer
\*   disposed   loaded assets whose geometries and materials were disposed
\*   timeouts   addModelLayer calls deferred with setTimeout, oldest first:
\*              the bus prop of the render that deferred each
\* ------------------------------------------------------------------------
NoEntity ==
  [ mounted |-> FALSE, mountGen |-> 0, gen |-> 0, bus |-> Null,
    markerRef |-> Null, markers |-> 0, layer |-> 0, layerBus |-> Null,
    modelTransform |-> Null, modelRef |-> Null, loading |-> {}, failed |-> {}, inScene |-> {}, disposed |-> {},
    timeouts |-> << >> ]

updateMarker(e, bus) ==
  IF e.markerRef = Null
  THEN [ e EXCEPT !.markerRef = << bus.Longitude, bus.Latitude >>,
                  !.markers = @ + 1 ]
  ELSE [ e EXCEPT !.markerRef = << bus.Longitude, bus.Latitude >> ]

\* degrees * (Math.PI / 180), in thousandths of a radian
Radians(deg) == (deg * 31416) \div 1800

\* headingRadians = (bus.Heading || 0) * (Math.PI / 180)
headingRadians(bus) ==
  Radians(IF bus.Heading = NoHeading THEN 0 ELSE bus.Heading)

\* the modelTransform of addModelLayer: the origin at altitude 5 m, the
\* rotation about the vertical, the scale 0.05 (in millionths)
modelTransform(bus) ==
  [ origin |-> << bus.Longitude, bus.Latitude >>, altitude |-> 5,
    rotateZ |-> headingRadians(bus), scale |-> 50000 ]

\* addModelLayer: a new scene, modelRef.current = { scene, busModel },
\* map.addLayer, whose onAdd starts loader.load('/Bus.glb')
addModelLayer(e, bus) ==
  [ e EXCEPT !.gen = @ + 1,
             !.modelRef = [ scene |-> e.gen + 1, busModel |-> 0 ],
             !.layer = e.gen + 1,
             !.layerBus = bus,
             !.modelTransform = modelTransform(bus),
             !.loading = @ \cup { e.gen + 1 } ]

updateModelPosition(e) ==
  [ e EXCEPT !.layer = 0, !.layerBus = Null, !.modelTransform = Null,
             !.timeouts = Append(@, e.bus) ]

\* faulty variant of effectCleanup: leaves the marker on the map (C6 must
\* reject it)
effectCleanup_keepsMarker(e) ==
  LET a == IF e.modelRef = Null THEN 0 ELSE e.modelRef.busModel
  IN [ e EXCEPT !.layer = 0, !.layerBus = Null, !.modelTransform = Null,
                !.markerRef = Null,
                !.inScene = IF a # 0 /\ a = e.modelRef.scene
                            THEN @ \ { a } ELSE @,
                !.disposed = IF a # 0 THEN @ \cup { a } ELSE @ ]

\* the cleanup returned by the effect
effectCleanup(e) ==
  LET a == IF e.modelRef = Null THEN 0 ELSE e.modelRef.busModel
  IN [ e EXCEPT !.layer = 0, !.layerBus = Null, !.modelTransform = Null,
                !.markers = IF e.markerRef # Null THEN @ - 1 ELSE @,
                !.markerRef = Null,
                \* scene.remove(busModel) detaches the asset only when it
                \* is a child of that scene
                !.inScene = IF a # 0 /\ a = e.modelRef.scene
                            THEN @ \ { a } ELSE @,
                !.disposed = IF a # 0 THEN @ \cup { a } ELSE @ ]

\* the body of the effect, deps [bus, map, onClick]
effectBody(e, bus) ==
  LET m == [ updateMarker(e, bus) EXCEPT !.bus = bus ]
  IN IF m.layer = 0 THEN addModelLayer(m, bus) ELSE updateModelPosition(m)

\* React mounts an instance for a key first seen: fresh refs, then the effect
Mount(e, bus) ==
  effectBody([ e EXCEPT !.mounted = TRUE, !.mountGen = e.gen + 1,
                        !.markerRef = Null, !.modelRef = Null ], bus)

\* React unmounts the instance of a key that left buses: the cleanup runs
Unmount(e) ==
  [ effectCleanup(e) EXCEPT !.mounted = FALSE, !.mountGen = 0, !.bus = Null,
                            !.modelRef = Null ]

\* a kept instance is re-rendered: onClick is a new function on every
\* MapView render, so the cleanup and the effect body both run
Update(e, bus) == effectBody(effectCleanup(e), bus)

\* commit of the MapView render of the list: children are keyed by VehicleId
Reconcile(e, id, list) ==
  LET bus == Find(list, id)
  IN IF bus = Null
     THEN IF e.mounted THEN Unmount(e) ELSE e
     ELSE IF e.mounted THEN Update(e, bus) ELSE Mount(e, bus)

Ids(list) == { list[i].VehicleId : i \in 1..Len(list) }

\* layer ids: `bus-model-${VehicleId}` and `route-layer-${pathIndex}`
BusLayerId(id) == << "bus-model", id >>

RouteLayerId(pathIndex) == << "route-layer", pathIndex >>

IsRouteLayer(l) == l[1] = "route-layer"

IsBusLayer(l) == l[1] = "bus-model"

NotBusLayer(l) == ~IsBusLayer(l)

\* the style layers after the effects of the Bus3DModel children of a
\* commit: the cleanups removeLayer every bus layer, then the effect bodies
\* run in the order of the list and each addModelLayer calls
\* map.addLayer(customLayer), which puts the layer on top
LayersAfterCommit(layers, list) ==
  SelectSeq(layers, NotBusLayer)
    \o [ i \in 1..Len(list) |-> BusLayerId(list[i].VehicleId) ]

\* what fetchRouteData resolves to: the route with its path, or, after a
\* failed request, a route without paths
Routes == { [ name |-> "route", paths |-> << "path" >> ],
            [ name |-> "Error", paths |-> << >> ] }

\* the route layer effect of MapView (deps [routeData, isMapLoaded]), first
\* run with route data: per path addSource and map.addLayer({ id, type:
\* 'line', ... }), which puts the layer on top
routeLayerEffect(layers, rd) ==
  layers \o [ i \in 1..Len(rd.paths) |-> RouteLayerId(i - 1) ]

\* loadBusData got a non-empty list: setBuses(data) and the commit of the
\* render that follows
Commit_setBuses(data) ==
  /\ Len(data) > 0
  /\ \A id \in Ids(data) : ent[id].gen < MaxLayers
  /\ buses' = data
  /\ ent' = [ id \in VehicleIds |-> Reconcile(ent[id], id, data) ]
  /\ map' = [ map EXCEPT !.layers = LayersAfterCommit(@, data) ]
  /\ UNCHANGED << selectedBus, showInfoPanel, isMapLoaded,
                  previousMapPosition, interval, pending, toasts, routeData,
                  zoomVars, routeVars, pollVars >>

\* a MapView render with the same buses (selection, deselection, ...)
Commit_rerender ==
  /\ Len(buses) > 0
  /\ \A id \in Ids(buses) : ent[id].gen < MaxLayers
  /\ ent' = [ id \in VehicleIds |-> Reconcile(ent[id], id, buses) ]
  /\ map' = [ map EXCEPT !.layers = LayersAfterCommit(@, buses) ]
  /\ UNCHANGED << buses, selectedBus, showInfoPanel, isMapLoaded,
                  previousMapPosition, interval, pending, toasts, routeData,
                  zoomVars, routeVars, pollVars >>

\* loadRouteData (called once, from the map's load handler) got the route:
\* setRouteData(data) and the commit of the render that follows; the
\* effects of the Bus3DModel children run before the route layer effect of
\* their parent
Commit_setRouteData(data) ==
  /\ routeData = Null
  /\ \A id \in Ids(buses) : ent[id].gen < MaxLayers
  /\ routeData' = data
  /\ ent' = [ id \in VehicleIds |-> Reconcile(ent[id], id, buses) ]
  /\ map' = [ map EXCEPT !.layers =
                routeLayerEffect(LayersAfterCommit(@, buses), data) ]
  /\ UNCHANGED << buses, selectedBus, showInfoPanel, isMapLoaded,
                  previousMapPosition, interval, pending, toasts, zoomVars, routeVars, pollVars >>

\* loader.load onLoad of layer k: busModel = gltf.scene;
\* modelRef.current.busModel = busModel; this.scene.add(busModel)
LoadDone(id, k) ==
  /\ k \in ent[id].loading
  /\ ent' = [ ent EXCEPT ![id] =
       [ @ EXCEPT !.loading = @ \ { k },
                  !.inScene = @ \cup { k },
                  \* the ref of the instance that made layer k; the refs of
                  \* an unmounted instance are not observed any more
                  !.modelRef = IF ent[id].mounted /\ k >= ent[id].mountGen
                               THEN [ @ EXCEPT !.busModel = k ] ELSE @ ] ]
  /\ UNCHANGED << mapViewVars, zoomVars, routeVars, pollVars >>

\* loader.load onError of layer k: console.error only
LoadError(id, k) ==
  /\ k \in ent[id].loading
  /\ ent' = [ ent EXCEPT ![id] = [ @ EXCEPT !.loading = @ \ { k },
                                             !.failed = @ \cup { k } ] ]
  /\ UNCHANGED << mapViewVars, zoomVars, routeVars, pollVars >>

\* ------------------------------------------------------------------------
\* Bus3DModel, second variant (src/src/components/Bus3DModel.tsx, lines
\* 268-512), on the same per-VehicleId record: its effect has the deps
\* [bus, map], creates the marker itself and its cleanup removes the marker
\* from the map without clearing markerRef.current.
\* ------------------------------------------------------------------------
\* the cleanup returned by the effect of the second variant
effectCleanup_v2(e) ==
  LET a == e.modelRef.busModel
  IN [ e EXCEPT !.layer = 0, !.layerBus = Null, !.modelTransform = Null,
                \* markerRef.current.remove(): the ref keeps the marker
                !.markers = IF e.markerRef # Null /\ @ > 0 THEN @ - 1 ELSE @,
                !.inScene = IF a # 0 /\ a = e.modelRef.scene
                            THEN @ \ { a } ELSE @,
                !.disposed = IF a # 0 THEN @ \cup { a } ELSE @ ]

\* the body of the effect of the second variant: a marker is created and
\* added to the map only when markerRef.current is null, otherwise the
\* marker of the ref is moved
effectBody_v2(e, bus) ==
  LET m == IF e.markerRef = Null
           THEN [ e EXCEPT !.markerRef = << bus.Longitude, bus.Latitude >>,
                           !.markers = @ + 1, !.bus = bus ]
           ELSE [ e EXCEPT !.markerRef = << bus.Longitude, bus.Latitude >>,
                           !.bus = bus ]
  IN IF m.layer = 0 THEN addModelLayer(m, bus) ELSE updateModelPosition(m)

Mount_v2(e, bus) ==
  effectBody_v2([ e EXCEPT !.mounted = TRUE, !.mountGen = e.gen + 1,
                           !.markerRef = Null, !.modelRef = Null ], bus)

Unmount_v2(e) ==
  [ effectCleanup_v2(e) EXCEPT !.mounted = FALSE, !.mountGen = 0,
                               !.bus = Null, !.markerRef = Null,
                               !.modelRef = Null ]

\* a kept instance is rendered with the bus object of the new list: the
\* cleanup and the effect body both run
Update_v2(e, bus) == effectBody_v2(effectCleanup_v2(e), bus)

Reconcile_v2(e, id, list) ==
  LET bus == Find(list, id)
  IN IF bus = Null
     THEN IF e.mounted THEN Unmount_v2(e) ELSE e
     ELSE IF e.mounted THEN Update_v2(e, bus) ELSE Mount_v2(e, bus)

\* setBuses(data) and the commit of the render of second-variant entities
Commit_setBuses_v2(data) ==
  /\ Len(data) > 0
  /\ \A id \in Ids(data) : ent[id].gen < MaxLayers
  /\ buses' = data
  /\ ent' = [ id \in VehicleIds |-> Reconcile_v2(ent[id], id, data) ]
  /\ map' = [ map EXCEPT !.layers = LayersAfterCommit(@, data) ]
  /\ UNCHANGED << selectedBus, showInfoPanel, isMapLoaded,
                  previousMapPosition, interval, pending, toasts, routeData,
                  zoomVars, routeVars, pollVars >>

\* ------------------------------------------------------------------------
\* Bus3DModel, slider variant (src/unnamed/part_000, lines 483-845), on the
\* same per-VehicleId record: no marker; the effect (deps [bus, map]) and
\* the two sliders call updateModelPosition, which removes the layer and
\* defers addModelLayer with setTimeout; the layer's onRemove disposes the
\* model of modelRef.current. The record keeps the modelRef the closures of
\* this id wrote last, also after the instance is unmounted.
\* ------------------------------------------------------------------------
\* if (map.getLayer(id)) map.removeLayer(id), whose onRemove detaches and
\* disposes modelRef.current.busModel
removeLayer_slider(e) == IF e.layer # 0 THEN effectCleanup(e) ELSE e

\* updateModelPosition of the render that has the bus as its prop
updateModelPosition_slider(e, bus) ==
  [ removeLayer_slider(e) EXCEPT !.timeouts = Append(@, bus) ]

\* addModelLayer: modelRef.current = { scene, busModel }, then
\* map.addLayer(customLayer); a layer whose id is already on the map is
\* refused with an error event, its onAdd does not run
addModelLayer_slider(e, bus) ==
  IF e.layer = 0
  THEN addModelLayer(e, bus)
  ELSE [ e EXCEPT !.gen = @ + 1,
                  !.modelRef = [ scene |-> e.gen + 1, busModel |-> 0 ] ]

effectBody_slider(e, bus) ==
  LET m == [ e EXCEPT !.bus = bus ]
  IN IF m.layer = 0 THEN addModelLayer_slider(m, bus)
     ELSE updateModelPosition_slider(m, bus)

Mount_slider(e, bus) ==
  effectBody_slider([ e EXCEPT !.mounted = TRUE, !.mountGen = e.gen + 1 ], bus)

Unmount_slider(e) ==
  [ removeLayer_slider(e) EXCEPT !.mounted = FALSE, !.mountGen = 0,
                                 !.bus = Null ]

Update_slider(e, bus) == effectBody_slider(removeLayer_slider(e), bus)

Reconcile_slider(e, id, list) ==
  LET bus == Find(list, id)
  IN IF bus = Null
     THEN IF e.mounted THEN Unmount_slider(e) ELSE e
     ELSE IF e.mounted THEN Update_slider(e, bus) ELSE Mount_slider(e, bus)

\* the style layers after a step that took the entities from e1 to e2: the
\* layers that were removed or replaced leave the stack, the layers added
\* go on top, in the order of ids
LayersAfterStep(layers, e1, e2, ids) ==
  LET kept(l) == \/ NotBusLayer(l)
                 \/ e2[l[2]].layer = e1[l[2]].layer
      added(id) == e2[id].layer # 0 /\ e2[id].layer # e1[id].layer
      new == SelectSeq(ids, added)
  IN SelectSeq(layers, kept) \o [ i \in 1..Len(new) |-> BusLayerId(new[i]) ]

\* setBuses(data) and the commit of the render of slider-variant entities
Commit_setBuses_slider(data) ==
  /\ Len(data) > 0
  /\ \A id \in Ids(data) : /\ ent[id].gen < MaxLayers
                            /\ Len(ent[id].timeouts) < MaxTimeouts
  /\ buses' = data
  /\ ent' = [ id \in VehicleIds |-> Reconcile_slider(ent[id], id, data) ]
  /\ map' = [ map EXCEPT !.layers =
                LayersAfterStep(@, ent, ent',
                                [ i \in 1..Len(data) |-> data[i].VehicleId ]) ]
  /\ UNCHANGED << selectedBus, showInfoPanel, isMapLoaded,
                  previousMapPosition, interval, pending, toasts, routeData,
                  zoomVars, routeVars, pollVars >>

\* onChange of the altitude or the scale slider of a rendered entity:
\* setAltitude / setScale and updateModelPosition()
Slider_onChange(id) ==
  /\ ent[id].mounted
  /\ Len(ent[id].timeouts) < MaxTimeouts
  /\ ent' = [ ent EXCEPT ![id] = updateModelPosition_slider(@, @.bus) ]
  /\ map' = [ map EXCEPT !.layers = LayersAfterStep(@, ent, ent', << id >>) ]
  /\ UNCHANGED << buses, selectedBus, showInfoPanel, isMapLoaded,
                  previousMapPosition, interval, pending, toasts, routeData,
                  zoomVars, routeVars, pollVars >>

\* the oldest setTimeout callback of updateModelPosition fires:
\* addModelLayer() of the render that deferred it
Timeout_addModelLayer(id) ==
  /\ ent[id].timeouts # << >>
  /\ ent[id].gen < MaxLayers
  /\ ent' = [ ent EXCEPT ![id] =
               addModelLayer_slider([ @ EXCEPT !.timeouts = Tail(@) ],
                                    Head(ent[id].timeouts)) ]
  /\ map' = [ map EXCEPT !.layers = LayersAfterStep(@, ent, ent', << id >>) ]
  /\ UNCHANGED << buses, selectedBus, showInfoPanel, isMapLoaded,
                  previousMapPosition, interval, pending, toasts, routeData,
                  zoomVars, routeVars, pollVars >>

\* loader.load onLoad of layer k of the slider variant:
\* modelRef.current.busModel = busModel; this.scene.add(busModel)
LoadDone_slider(id, k) ==
  /\ k \in ent[id].loading
  /\ ent' = [ ent EXCEPT ![id] =
       [ @ EXCEPT !.loading = @ \ { k },
                  !.inScene = @ \cup { k },
                  !.modelRef = [ @ EXCEPT !.busModel = k ] ] ]
  /\ UNCHANGED << mapViewVars, zoomVars, routeVars, pollVars >>

\* ------------------------------------------------------------------------
\* Zoom-scaled Bus3DModel (src/unnamed/part_000, lines 16-479)
\*
\* Numbers: zoom in tenths, scale in millionths, elevation in metres,
\* rotation in thousandths of a radian.
\* ------------------------------------------------------------------------
baseScale == 10

\* baseZoom 12, in tenths
baseZoom == 120

zoomSpeed == 3

\* minScale 0.05, in millionths
minScale == 50000

\* maxScale 0.35, in millionths
maxScale == 350000

\* the heading correction of the model, degrees
headingOffset == 25

\* zoom 14 below which the model is lifted, in tenths
elevationZoom == 140

\* metres of elevation per zoom level
elevationGain == 200

\* NaN, the result of arithmetic on undefined
NaN == -1000000

\* the camera zooms the frames are rendered at, in tenths
Zooms == ZoomMin..ZoomMax

Max(a, b) == IF a >= b THEN a ELSE b

Min(a, b) == IF a <= b THEN a ELSE b

RECURSIVE Pow(_, _)
Pow(b, n) == IF n = 0 THEN 1 ELSE b * Pow(b, n - 1)

\* zoomSpeed ^ (r / 10) for r = 0..9, in millionths
PowTenths == << 1000000, 1116123, 1245731, 1390389, 1551846,
                1732051, 1933182, 2157669, 2408225, 2687875 >>

\* Math.pow(zoomSpeed, e / 10), in millionths
PowMicro(e) ==
  LET q == e \div 10
      r == e % 10
  IN IF q >= 0 THEN PowTenths[r + 1] * Pow(zoomSpeed, q)
     ELSE PowTenths[r + 1] \div Pow(zoomSpeed, -q)

\* faulty variant of calculateScale: the scale is not clamped (C11 must
\* reject it)
calculateScale_unclamped(zoom) == baseScale * PowMicro(baseZoom - zoom)

calculateScale(zoom) ==
  LET scaleFactor == PowMicro(baseZoom - zoom)
  IN Min(Max(baseScale * scaleFactor, minScale), maxScale)

\* faulty variant of elevationAdjustment: zoomFactor is not held at 0 above
\* zoom 14 (C12 must reject it)
elevationAdjustment_unclamped(zoom) ==
  ((elevationZoom - zoom) * elevationGain) \div 10

\* zoomFactor * 200 with zoomFactor = Math.max(0, 14 - zoom)
elevationAdjustment(zoom) ==
  (Max(0, elevationZoom - zoom) * elevationGain) \div 10

\* ((bus.Heading + 25) * Math.PI) / 180; undefined + 25 is NaN
modelRotateZ(bus) ==
  IF bus.Heading = NoHeading THEN NaN
  ELSE ((bus.Heading + headingOffset) * 31416) \div 1800

\* getModelTransform of the render that had the bus as its prop.
\* translateX/Y/Z are MercatorCoordinate.fromLngLat(origin, altitude); scale
\* is meterInMercatorCoordinateUnits() at the origin times calculateScale.
getModelTransform(bus, zoom) ==
  [ origin |-> << bus.Longitude, bus.Latitude >>,
    altitude |-> elevationAdjustment(zoom),
    rotateZ |-> modelRotateZ(bus),
    scale |-> calculateScale(zoom) ]

\*   mounted    the component instance exists
\*   bus        the bus prop of the last render
\*   layer      the custom layer is on the map
\*   layerBus   the bus prop of the render whose getModelTransform the
\*              layer's render function closes over
\*   loading    loader.load has not called back yet
\*   busModel   the busModel variable of the layer's closure is set
\*   markerRef  markerRef.current: Null or the marker's LngLat
\*   markers    markers of this entity attached to the map
\*   frame      the transform the last rendered frame used, Null before
\*   debugStats useState debugStats: what calculateScale and
\*              getModelTransform recorded of their last call
initialDebugStats == [ zoom |-> 0, scale |-> 0, elevation |-> 0 ]

NoZoomEntity ==
  [ mounted |-> FALSE, bus |-> Null, layer |-> FALSE, layerBus |-> Null,
    loading |-> FALSE, busModel |-> FALSE, markerRef |-> Null, markers |-> 0,
    frame |-> Null, debugStats |-> initialDebugStats ]

\* setDebugStats of calculateScale(zoom) and getModelTransform(zoom)
setDebugStats(zoom) ==
  [ zoom |-> zoom, scale |-> calculateScale(zoom),
    elevation |-> elevationAdjustment(zoom) ]

\* first render and its effects: the layer effect (deps [map]) adds the
\* layer, whose onAdd starts the load; the marker effect creates the marker
Zoom_mount(bus) ==
  /\ ~zent.mounted
  /\ zent' = [ zent EXCEPT !.mounted = TRUE, !.bus = bus,
                           !.layer = TRUE, !.layerBus = bus,
                           !.loading = TRUE, !.busModel = FALSE,
                           !.markerRef = << bus.Longitude, bus.Latitude >>,
                           !.markers = @ + 1,
                           !.frame = Null,
                           !.debugStats = initialDebugStats ]
  /\ UNCHANGED << mapViewVars, entityVars, routeVars, pollVars >>

\* a telemetry update: the instance is rendered with a new bus prop; the
\* layer effect does not run again, the marker effect (deps
\* [bus.Longitude, bus.Latitude, showMarker]) removes and re-creates the
\* marker when the position changed
Zoom_update(bus) ==
  /\ zent.mounted
  /\ bus.VehicleId = zent.bus.VehicleId
  /\ bus # zent.bus
  /\ zent' = [ zent EXCEPT
       !.bus = bus,
       !.markerRef = IF << bus.Longitude, bus.Latitude >>
                          # << zent.bus.Longitude, zent.bus.Latitude >>
                      THEN << bus.Longitude, bus.Latitude >> ELSE @ ]
  /\ UNCHANGED << mapViewVars, entityVars, routeVars, pollVars >>

\* loader.load onLoad: busModel = gltf.scene; this.scene.add(busModel)
Zoom_loadDone ==
  /\ zent.loading
  /\ zent' = [ zent EXCEPT !.loading = FALSE, !.busModel = TRUE ]
  /\ UNCHANGED << mapViewVars, entityVars, routeVars, pollVars >>

\* loader.load onError: console.error only
Zoom_loadError ==
  /\ zent.loading
  /\ zent' = [ zent EXCEPT !.loading = FALSE ]
  /\ UNCHANGED << mapViewVars, entityVars, routeVars, pollVars >>

\* the camera zoom changes (scroll, flight), no telemetry involved
Zoom_setZoom(z) ==
  /\ z # map.camera.zoom
  /\ map' = [ map EXCEPT !.camera.zoom = z ]
  /\ UNCHANGED << buses, selectedBus, showInfoPanel, isMapLoaded,
                  previousMapPosition, interval, pending, toasts, routeData,
                  entityVars, zoomVars, routeVars, pollVars >>

\* faulty variant of customLayer_render: keeps the transform of the zoom the
\* map was created with (C10 must reject it)
customLayer_render_fixedZoom ==
  /\ zent.layer
  /\ zent.busModel
  /\ zent' = [ zent EXCEPT
       !.frame = getModelTransform(zent.layerBus, InitialPose.zoom),
       !.debugStats = setDebugStats(InitialPose.zoom) ]
  /\ UNCHANGED << mapViewVars, entityVars, routeVars, pollVars >>

\* customLayer.render, one frame: if (!busModel) return;
\* currentTransform = getModelTransform(map.getZoom())
customLayer_render ==
  /\ zent.layer
  /\ zent.busModel
  /\ zent' = [ zent EXCEPT
       !.frame = getModelTransform(zent.layerBus, map.camera.zoom),
       !.debugStats = setDebugStats(map.camera.zoom) ]
  /\ UNCHANGED << mapViewVars, entityVars, routeVars, pollVars >>

\* unmount: the layer is removed, the model disposed, the marker removed;
\* a load still pending calls back into the closure of the removed layer
Zoom_unmount ==
  /\ zent.mounted
  /\ zent' = NoZoomEntity
  /\ UNCHANGED << mapViewVars, entityVars, routeVars, pollVars >>

\* ------------------------------------------------------------------------
\* Specification of MapView
\* ------------------------------------------------------------------------
\* ------------------------------------------------------------------------
\* RouteLayer (src/src/components/Bus3DModel.tsx, lines 514-600)
\*
\* Sources are named by their path index (`route-source-${pathIndex}`); the
\* layer `route-layer-${pathIndex}` uses the source of the same index.
\* ------------------------------------------------------------------------
\* the layer the route lines are inserted before
GroupLayerId == << "bus-model-layer-group", 0 >>

\* the routeData props: routes of one to MaxPaths paths, and the route
\* without paths that fetchRouteData resolves to after a failed request
RouteNames == { "A", "B" }

RouteProps ==
  { [ name |-> nm, paths |-> [ i \in 1..n |-> "path" ] ] :
      nm \in RouteNames, n \in 1..MaxPaths }
    \cup { [ name |-> "Error", paths |-> << >> ] }

NoRouteLayer ==
  [ mounted |-> FALSE, routeData |-> Null, routeSourcesRef |-> << >>,
    error |-> FALSE ]

\* map.getLayer(l) !== undefined
HasLayer(m, l) == \E i \in 1..Len(m.layers) : m.layers[i] = l

\* map.removeSource: refused (error event) while a layer uses the source
removeSource(m, i) ==
  IF HasLayer(m, RouteLayerId(i)) THEN m
  ELSE [ m EXCEPT !.sources = @ \ { i } ]

\* routeSourcesRef.current.forEach(id => ...): the ref holds source ids, so
\* map.getLayer(id) finds no layer and removeLayer is not called; the
\* source is handed to map.removeSource when map.getSource(id) finds it
cleanRouteSources(m, ref) ==
  [ m EXCEPT !.sources =
      { i \in @ : \/ \A j \in 1..Len(ref) : ref[j] # i
                   \/ i \in removeSource(m, i).sources } ]

\* map.addLayer(layer, before): an error event and no layer when the id is
\* taken or when the layer `before` is not on the map
addLayerBefore(m, l, before) ==
  IF HasLayer(m, l) \/ ~HasLayer(m, before) THEN m
  ELSE LET k == CHOOSE i \in 1..Len(m.layers) : m.layers[i] = before
       IN [ m EXCEPT !.layers = SubSeq(@, 1, k - 1) \o << l >>
                                  \o SubSeq(@, k, Len(@)) ]

\* routeData.paths.forEach from path index i: map.addSource throws when the
\* id is taken, which ends the effect; else addLayer and the push of the
\* source id
RECURSIVE addPaths(_, _, _, _)
addPaths(m, ref, i, n) ==
  IF i = n THEN [ map |-> m, ref |-> ref, thrown |-> FALSE ]
  ELSE IF i \in m.sources THEN [ map |-> m, ref |-> ref, thrown |-> TRUE ]
  ELSE addPaths(addLayerBefore([ m EXCEPT !.sources = @ \cup { i } ],
                               RouteLayerId(i), GroupLayerId),
                Append(ref, i), i + 1, n)

\* the body of the effect: the clean-up loop over the ref, then the paths
RouteLayer_effectBody(m, ref, rd) ==
  addPaths(cleanRouteSources(m, ref), << >>, 0, Len(rd.paths))

\* the component state after an effect run r: an effect that threw takes
\* the tree down (no error boundary) and no cleanup is kept for it
RouteLayer_after(r, rd) ==
  IF r.thrown THEN [ NoRouteLayer EXCEPT !.error = TRUE ]
  ELSE [ mounted |-> TRUE, routeData |-> rd, routeSourcesRef |-> r.ref,
         error |-> FALSE ]

\* RouteLayer is mounted with the map and a route
RouteLayer_mount(rd) ==
  /\ ~routeLayer.mounted
  /\ LET r == RouteLayer_effectBody(map, << >>, rd)
     IN /\ map' = r.map
        /\ routeLayer' = RouteLayer_after(r, rd)
  /\ UNCHANGED << buses, selectedBus, showInfoPanel, isMapLoaded,
                  previousMapPosition, interval, pending, toasts, routeData,
                  entityVars, zoomVars, pollVars >>

\* the routeData prop changed: the cleanup the previous run returned, then
\* the body
RouteLayer_update(rd) ==
  /\ routeLayer.mounted
  /\ rd # routeLayer.routeData
  /\ LET c == cleanRouteSources(map, routeLayer.routeSourcesRef)
         r == RouteLayer_effectBody(c, << >>, rd)
     IN /\ map' = r.map
        /\ routeLayer' = RouteLayer_after(r, rd)
  /\ UNCHANGED << buses, selectedBus, showInfoPanel, isMapLoaded,
                  previousMapPosition, interval, pending, toasts, routeData,
                  entityVars, zoomVars, pollVars >>

\* RouteLayer is unmounted: the cleanup the last run returned
RouteLayer_unmount ==
  /\ routeLayer.mounted
  /\ map' = cleanRouteSources(map, routeLayer.routeSourcesRef)
  /\ routeLayer' = NoRouteLayer
  /\ UNCHANGED << buses, selectedBus, showInfoPanel, isMapLoaded,
                  previousMapPosition, interval, pending, toasts, routeData,
                  entityVars, zoomVars, pollVars >>

\* the host of the map adds the layer the bus layers are grouped under
Map_addGroupLayer ==
  /\ ~HasLayer(map, GroupLayerId)
  /\ map' = [ map EXCEPT !.layers = Append(@, GroupLayerId) ]
  /\ UNCHANGED << buses, selectedBus, showInfoPanel, isMapLoaded,
                  previousMapPosition, interval, pending, toasts, routeData,
                  entityVars, zoomVars, routeVars, pollVars >>

vars == << map, buses, selectedBus, showInfoPanel, isMapLoaded,
           previousMapPosition, interval, pending, toasts, routeData,
           ent, zent, routeLayer, polls >>

Init ==
  /\ map = [ camera |-> InitialPose, anim |-> Null, moveendOnce |-> 0,
             handlers |-> [ h \in Handlers |-> TRUE ], navOnMap |-> TRUE,
             controls |-> 1, removed |-> FALSE, sources |-> {},
             layers |-> <<>> ]
  /\ buses = <<>>
  /\ selectedBus = Null
  /\ showInfoPanel = FALSE
  /\ isMapLoaded = FALSE
  /\ previousMapPosition = Null
  /\ interval = Null
  /\ pending = EmptyBag
  /\ toasts = {}
  /\ routeData = Null
  /\ ent = [ id \in VehicleIds |-> NoEntity ]
  /\ zent = NoZoomEntity
  /\ routeLayer = NoRouteLayer
  /\ polls = << >>

Next ==
  \/ MapLoad
  \/ loadBusData_call
  \/ \E c \in BagToSet(pending), resp \in Responses :
       loadBusData(c, resp)
  \/ \E bus \in BusData : handleBusClick(bus)
  \/ handleInfoPanelClose
  \/ AnimFrame
  \/ AnimEnd
  \/ \E pose \in UserPoses : UserMove(pose)

Spec == Init /\ [][Next]_vars

\* ------------------------------------------------------------------------
\* Specification of MapView from its mount to after its unmount
\* ------------------------------------------------------------------------
NextLife ==
  \/ ~map.removed /\ MapLoad
  \/ ~map.removed /\ loadBusData_call
  \/ \E c \in BagToSet(pending), resp \in Responses :
       ~map.removed /\ loadBusData(c, resp)
  \/ \E bus \in BusData : ~map.removed /\ handleBusClick(bus)
  \/ ~map.removed /\ handleInfoPanelClose
  \/ ~map.removed /\ AnimFrame
  \/ ~map.removed /\ AnimEnd
  \/ \E pose \in UserPoses : ~map.removed /\ UserMove(pose)
  \/ MapView_unmount
  \/ \E c \in BagToSet(pending), resp \in Responses :
       loadBusData_unmounted(c, resp)

SpecLife == Init /\ [][NextLife]_vars

\* ------------------------------------------------------------------------
\* Specification of MapView with the pending polls in the order of issue:
\* the load, the ticks, the responses, selections and deselections, with
\* every flight running to its end
\* ------------------------------------------------------------------------
NextPolls ==
  \/ MapLoad_ordered
  \/ loadBusData_call_ordered
  \/ \E i \in 1..MaxPending, resp \in Responses : loadBusData_ordered(i, resp)
  \/ \E bus \in BusData : handleBusClick(bus)
  \/ handleInfoPanelClose
  \/ AnimEnd

SpecPolls == Init /\ [][NextPolls]_vars

\* ------------------------------------------------------------------------
\* Specification of the Bus3DModel entities under the renders of MapView
\* ------------------------------------------------------------------------
NextEntity ==
  \/ \E data \in Feeds : Commit_setBuses(data)
  \/ Commit_rerender
  \/ \E data \in Routes : Commit_setRouteData(data)
  \/ \E id \in VehicleIds, k \in 1..MaxLayers : LoadDone(id, k)
  \/ \E id \in VehicleIds, k \in 1..MaxLayers : LoadError(id, k)

SpecEntity == Init /\ [][NextEntity]_vars

\* ------------------------------------------------------------------------
\* Specification of the second-variant Bus3DModel entities under the polls
\* ------------------------------------------------------------------------
NextEntity_v2 ==
  \/ \E data \in Feeds : Commit_setBuses_v2(data)
  \/ \E id \in VehicleIds, k \in 1..MaxLayers : LoadDone(id, k)
  \/ \E id \in VehicleIds, k \in 1..MaxLayers : LoadError(id, k)

SpecEntity_v2 == Init /\ [][NextEntity_v2]_vars

\* ------------------------------------------------------------------------
\* Specification of the slider-variant Bus3DModel entities under the polls,
\* the sliders, the timers and the asset loads that succeed
\* ------------------------------------------------------------------------
NextSlider ==
  \/ \E data \in Feeds : Commit_setBuses_slider(data)
  \/ \E id \in VehicleIds : Slider_onChange(id)
  \/ \E id \in VehicleIds : Timeout_addModelLayer(id)
  \/ \E id \in VehicleIds, k \in 1..MaxLayers : LoadDone_slider(id, k)

SpecSlider == Init /\ [][NextSlider]_vars

\* ------------------------------------------------------------------------
\* Specification of one zoom-scaled Bus3DModel under telemetry updates,
\* camera zoom changes and frames
\* ------------------------------------------------------------------------
NextZoom ==
  \/ \E bus \in BusData : Zoom_mount(bus)
  \/ \E bus \in BusData : Zoom_update(bus)
  \/ Zoom_loadDone
  \/ Zoom_loadError
  \/ \E z \in Zooms : Zoom_setZoom(z)
  \/ customLayer_render
  \/ Zoom_unmount

SpecZoom == Init /\ [][NextZoom]_vars

\* ------------------------------------------------------------------------
\* Specification of RouteLayer under changes of its routeData prop, on the
\* map the Bus3DModel entities of the polls put their layers on
\* ------------------------------------------------------------------------
NextRoute ==
  \/ \E rd \in RouteProps : RouteLayer_mount(rd)
  \/ \E rd \in RouteProps : RouteLayer_update(rd)
  \/ RouteLayer_unmount
  \/ Map_addGroupLayer
  \/ \E data \in Feeds : Commit_setBuses(data)

SpecRoute == Init /\ [][NextRoute]_vars

\* ------------------------------------------------------------------------
\* Camera-follow states (spec section 4.5) read off the MapView state
\* ------------------------------------------------------------------------
InteractionEnabled == \A h \in Handlers : map.handlers[h]

InteractionDisabled == \A h \in Handlers : ~map.handlers[h]

Idle ==
  /\ selectedBus = Null /\ ~showInfoPanel /\ previousMapPosition = Null
  /\ map.anim = Null

Focusing == isFollowingBus /\ map.anim # Null

Focused == isFollowingBus /\ map.anim = Null

Restoring == ~isFollowingBus /\ map.anim # Null

SelectStep == \E bus \in BusData : handleBusClick(bus)

DeselectStep == handleInfoPanelClose

\* the render entities of the MapView render: one Bus3DModel per element of
\* buses, keyed by VehicleId
RenderEntities == { buses[i].VehicleId : i \in 1..Len(buses) }

\* ------------------------------------------------------------------------
\* Claims
\* ------------------------------------------------------------------------
\* C1: round trip of follow mode. A selection made in Idle with interaction
\* enabled saves the camera pose P0 of that moment; while the follow lasts
\* no step other than a selection or a deselection changes the saved pose or
\* ends the follow, whatever re-centering it does; once the focus animation
\* is over (Focused) every handler is disabled and the navigation control is
\* off the map; a deselect in Focused enables the handlers, puts the control
\* back and starts a flight whose target is the saved pose.
C1_RoundTrip ==
  /\ [](Focused => InteractionDisabled /\ ~map.navOnMap)
  /\ [][ /\ (SelectStep /\ Idle /\ InteractionEnabled
               => previousMapPosition' = map.camera)
         /\ (isFollowingBus /\ ~SelectStep /\ ~DeselectStep
               => /\ previousMapPosition' = previousMapPosition
                  /\ isFollowingBus')
         /\ (DeselectStep /\ Focused
               => /\ InteractionEnabled' /\ map'.navOnMap
                  /\ map'.anim = previousMapPosition) ]_vars

\* C1 witness: a restore flight back to a pose the user had chosen, issued
\* from a camera that followed bus 1 to its second position
C1_Witness ==
  /\ Restoring /\ selectedBus = Null /\ previousMapPosition = Null
  /\ InteractionEnabled /\ map.navOnMap
  /\ map.anim = [ center |-> <<3, 3>>, zoom |-> 140, pitch |-> 0, bearing |-> 0 ]
  /\ map.camera = [ center |-> <<2, 1>>, zoom |-> 180, pitch |-> 60,
                    bearing |-> 900 ]

\* C2: in every reachable state interaction is enabled unless the
\* controller is Focused.
C2_EnabledUnlessFocused == ~Focused => InteractionEnabled

\* C3: a selection made while a follow is active (Focusing or Focused)
\* leaves the saved pose as it was, i.e. the pose captured before the first
\* selection.
C3_SecondSelectKeepsFirstPose ==
  [][ SelectStep /\ isFollowingBus
        => previousMapPosition' = previousMapPosition ]_vars

\* C4: while Focused on e, every poll completion whose result has a record
\* of e moves the camera center to the record's position and the bearing to
\* its heading, replaces selectedBus by the record and keeps zoom and pitch.
C4_EveryPollRecenters ==
  [][ \A c \in BagToSet(pending), f \in Feeds :
        ( /\ Focused
          /\ Find(f, selectedBus.VehicleId) # Null
          /\ loadBusData_resume(c, f) )
        => LET r == Find(f, selectedBus.VehicleId)
           IN /\ selectedBus' = r
              /\ map'.camera = [ map.camera EXCEPT
                                   !.center = << r.Longitude, r.Latitude >>,
                                   !.bearing = HeadingOr0(r) ] ]_vars

\* C5: a poll that returns an empty list empties the set of render
\* entities.
C5_EmptyPollEmptiesEntities ==
  [][ (\E c \in BagToSet(pending) : loadBusData_resume(c, <<>>))
        => RenderEntities' = {} ]_vars

\* C6: after every poll that set a non-empty list, the live Bus3DModel
\* instances are exactly the ids of the list: each has its layer and one
\* marker on the map, an id first seen got a new instance, an id that was
\* already rendered kept its instance, and an id that left the list has no
\* instance, no layer and no marker; between polls the instances stay those
\* of buses.
C6_EntitiesMatchPoll ==
  /\ []({ id \in VehicleIds : ent[id].mounted } = Ids(buses))
  /\ [][ \A data \in Feeds : Commit_setBuses(data) =>
           \A id \in VehicleIds :
             IF id \in Ids(data)
             THEN /\ ent'[id].mounted
                  /\ ent'[id].layer # 0
                  /\ ent'[id].markers = 1 /\ ent'[id].markerRef # Null
                  /\ ent[id].mounted => ent'[id].mountGen = ent[id].mountGen
                  /\ ~ent[id].mounted => ent'[id].mountGen = ent'[id].gen
             ELSE /\ ~ent'[id].mounted
                  /\ ent'[id].layer = 0
                  /\ ent'[id].markers = 0 ]_vars

\* C6 witness: bus 1 kept its instance over two polls, bus 2 was rendered
\* and then left the feed
C6_Witness ==
  /\ ent[1].mounted /\ ent[1].mountGen = 1 /\ ent[1].gen = 2
  /\ ent[1].layer = 2 /\ ent[1].markers = 1
  /\ ~ent[2].mounted /\ ent[2].gen = 1
  /\ ent[2].layer = 0 /\ ent[2].markers = 0

\* C8: between the creation and the disposal of an entity the asset load
\* is started exactly once: the live instance has made one layer only.
C8_LoadStartedOnce ==
  \A id \in VehicleIds : ent[id].mounted => ent[id].gen = ent[id].mountGen

\* C9: modelRef never holds an asset of a layer that is no longer on the
\* map, and every loaded asset that is still attached to a scene belongs to
\* the layer on the map (the others were detached and disposed).
C9_NoStaleAsset ==
  \A id \in VehicleIds :
    /\ (ent[id].modelRef # Null /\ ent[id].modelRef.busModel # 0)
          => ent[id].modelRef.busModel = ent[id].layer
    /\ \A k \in ent[id].inScene : k = ent[id].layer

\* C7: in the zoom-scaled variant every frame uses a translation projected
\* from the latest position of the entity and a rotation from its latest
\* heading.
C7_FrameUsesLatestTelemetry ==
  [][ customLayer_render =>
        /\ zent'.frame.origin = << zent.bus.Longitude, zent.bus.Latitude >>
        /\ zent'.frame.rotateZ = modelRotateZ(zent.bus) ]_vars

C11_ScaleClampedMonotone ==
  /\ [](zent.frame # Null
         => /\ zent.debugStats.scale = zent.frame.scale
            /\ minScale <= zent.frame.scale /\ zent.frame.scale <= maxScale)
  /\ [][ (customLayer_render /\ zent.frame # Null
            /\ zent.debugStats.zoom <= zent'.debugStats.zoom)
          => zent.frame.scale >= zent'.frame.scale ]_vars

\* C11 witness: a frame at zoom 16.0, where the scale (10 / 81 = 0.12345) is
\* strictly between the two clamps
C11_Witness ==
  /\ zent.frame # Null /\ zent.busModel
  /\ zent.debugStats.zoom = 160
  /\ zent.frame.scale = 123450
  /\ minScale < zent.frame.scale /\ zent.frame.scale < maxScale

\* C12: the elevation a frame used is 0 when the frame's zoom is 14 or more
\* and positive when it is below 14, and of two consecutive frames below
\* zoom 14 the one at the higher zoom has the strictly smaller elevation.
C12_ElevationBelowThreshold ==
  /\ [](zent.frame # Null
         => /\ zent.debugStats.elevation = zent.frame.altitude
            /\ zent.debugStats.zoom >= elevationZoom => zent.frame.altitude = 0
            /\ zent.debugStats.zoom < elevationZoom => zent.frame.altitude > 0)
  /\ [][ (customLayer_render /\ zent.frame # Null
            /\ zent.debugStats.zoom < zent'.debugStats.zoom
            /\ zent'.debugStats.zoom < elevationZoom)
          => zent.frame.altitude > zent'.frame.altitude ]_vars

\* C12 witness: a frame at zoom 13.5 lifted the model by 100 metres
C12_Witness ==
  /\ zent.frame # Null /\ zent.busModel
  /\ zent.debugStats.zoom = 135
  /\ map.camera.zoom = 135
  /\ zent.frame.altitude = 100

\* C13: the transform of every entity on the map whose telemetry has a
\* heading h rotates the model about the vertical by (h + 25) degrees, the
\* calibration offset applied once (90 -> 115 degrees, 2.007 rad).
C13_RotationIsHeadingPlusOffset ==
  \A id \in VehicleIds :
    (ent[id].layer # 0 /\ ent[id].bus.Heading # NoHeading)
      => ent[id].modelTransform.rotateZ
           = Radians(ent[id].bus.Heading + headingOffset)

\* C14: a telemetry record without Heading is rendered as heading 0: the
\* frame of the zoom-scaled entity rotates the model by the calibration
\* offset alone, a defined number.
C14_MissingHeadingIsZero ==
  (zent.frame # Null /\ zent.layerBus.Heading = NoHeading)
    => /\ zent.frame.rotateZ # NaN
       /\ zent.frame.rotateZ = Radians(0 + headingOffset)

\* C15: once the asset load of the layer of a live entity has failed, as
\* long as the entity lives it keeps that layer and its marker on the map,
\* the scene of the layer holds no model, and no other load is started for
\* the entity.
C15_FailedLoadNotRetried ==
  [][ \A id \in VehicleIds :
        ( /\ ent[id].mounted /\ ent[id].layer # 0
          /\ ent[id].layer \in ent[id].failed
          /\ ent'[id].mounted )
        => /\ ent'[id].gen = ent[id].gen
           /\ ent'[id].layer = ent[id].layer
           /\ ent'[id].markers = 1
           /\ ent'[id].layer \notin ent'[id].inScene ]_vars

\* C16: a loadBusData call whose fetch failed (network error or non-OK
\* status) leaves buses, the selection, the panel, the saved pose and the
\* map (camera, flight, listeners, handlers) as they were, and the interval
\* stays armed with the same callback.
C16_FetchFailureKeepsState ==
  [][ \A c \in BagToSet(pending), resp \in Responses :
        (~resp.ok /\ loadBusData(c, resp))
        => /\ buses' = buses
           /\ selectedBus' = selectedBus
           /\ showInfoPanel' = showInfoPanel
           /\ previousMapPosition' = previousMapPosition
           /\ map' = map
           /\ interval' = interval /\ interval' # Null ]_vars

\* C16 witness: the last fetch failed while the controller was following
\* bus 1 out of two rendered buses; the list, the selection, the saved pose
\* and the focused camera are there and the interval is armed
C16_Witness ==
  /\ toasts = { "Could not retrieve bus locations" }
  /\ Focused /\ selectedBus.VehicleId = 1
  /\ Len(buses) = 2
  /\ previousMapPosition = InitialPose
  /\ map.camera.center = << selectedBus.Longitude, selectedBus.Latitude >>
  /\ map.camera.zoom = 180
  /\ interval # Null /\ interval.following

\* C17: every live entity has exactly one marker attached to the map, at
\* the position of its latest telemetry record, and an entity that is not
\* live has none; in particular in the second variant of Bus3DModel.
C17_OneMarkerPerLiveEntity ==
  \A id \in VehicleIds :
    IF ent[id].mounted
    THEN /\ ent[id].markers = 1
         /\ ent[id].markerRef = << ent[id].bus.Longitude, ent[id].bus.Latitude >>
    ELSE ent[id].markers = 0

\* C18: whenever the style holds a route line layer and a vehicle layer,
\* every route line layer is below every vehicle layer, whatever the order
\* in which the route data and the telemetry arrived.
C18_RouteLayersBelowVehicles ==
  \A i, j \in 1..Len(map.layers) :
    (IsRouteLayer(map.layers[i]) /\ ~IsRouteLayer(map.layers[j])) => i < j

\* C19: a saved pose exists exactly when a focus is active (an entity is
\* selected and the panel is shown), and no state has a selected entity
\* without a saved pose or a saved pose without a selected entity.
\* selectedBus holds one record, so at most one entity is focused.
C19_SavedPoseIffFocus ==
  /\ previousMapPosition # Null <=> isFollowingBus
  /\ selectedBus # Null <=> previousMapPosition # Null

\* C20: at most one moveend completion handler is registered at a time,
\* and the handler of a flight that a selection or a deselection superseded
\* does nothing: a deselection leaves interaction enabled, a selection made
\* with interaction enabled leaves it enabled until its own flight is
\* over, and the end of a restore flight does not disable it.
C20_SupersededCompletionIgnored ==
  /\ [](map.moveendOnce <= 1)
  /\ [][ /\ DeselectStep => InteractionEnabled'
         /\ (SelectStep /\ InteractionEnabled) => InteractionEnabled'
         /\ (AnimEnd /\ Restoring /\ InteractionEnabled)
              => InteractionEnabled' ]_vars

\* C21: after a deselect nothing but the restore flight, the user and a new
\* selection moves the camera: a poll that completes while no follow is
\* active (in particular one started while Focused) leaves the map as it
\* is, so it neither stops the restore flight nor moves the camera.
C21_NoPollMovesCameraAfterDeselect ==
  [][ \A c \in BagToSet(pending), resp \in Responses :
        (~isFollowingBus /\ loadBusData(c, resp)) => map' = map ]_vars

\* C22: the load-completion callback of a layer that the effect cleanup
\* has removed adds nothing to a scene and writes no model record: it
\* changes nothing of the entity but the end of that load.
C22_StaleLoadCallbackIsNoOp ==
  [][ \A id \in VehicleIds, k \in 1..(MaxLayers + 1) :
        (LoadDone(id, k) /\ ent[id].layer # k)
        => /\ ent'[id].inScene = ent[id].inScene
           /\ ent'[id].modelRef = ent[id].modelRef ]_vars

\* C23: a deselect leaves interaction enabled and the navigation control on
\* the map, clears the selected entity and the saved pose, and from then
\* until the next selection both stay absent, whatever polls complete.
C23_FollowStateStaysCleared ==
  [][ /\ DeselectStep
           => /\ InteractionEnabled' /\ map'.navOnMap
              /\ selectedBus' = Null /\ previousMapPosition' = Null
      /\ (selectedBus = Null /\ previousMapPosition = Null /\ ~SelectStep)
           => (selectedBus' = Null /\ previousMapPosition' = Null) ]_vars

\* C24: a poll that completes while the focus flight is still in progress
\* leaves the camera and the flight alone: center and bearing are snapped
\* only once the flight is over.
C24_NoSnapDuringFocusFlight ==
  [][ \A c \in BagToSet(pending), resp \in Responses :
        (Focusing /\ loadBusData(c, resp))
        => /\ map'.camera = map.camera
           /\ map'.anim = map.anim ]_vars

\* C26: while following e, a poll whose list is not empty and has no record
\* of e replaces the entity list and leaves the map (camera, flight,
\* handlers, control), the selected entity, the panel and the saved pose
\* unchanged.
C26_FeedWithoutFocusedEntity ==
  [][ \A c \in BagToSet(pending), f \in Feeds :
        ( /\ isFollowingBus /\ Len(f) > 0
          /\ Find(f, selectedBus.VehicleId) = Null
          /\ loadBusData_resume(c, f) )
        => /\ buses' = f
           /\ map' = map
           /\ selectedBus' = selectedBus
           /\ showInfoPanel' = showInfoPanel
           /\ previousMapPosition' = previousMapPosition ]_vars

\* C27: every addModelLayer deferred by updateModelPosition runs
\* map.addLayer while its entity is live and while no layer with its id is
\* on the map; no layer is on the map for an entity that is not live.
C27_AddLayerOnlyWhileLive ==
  /\ [](\A id \in VehicleIds : ent[id].layer # 0 => ent[id].mounted)
  /\ [][ \A id \in VehicleIds :
           Timeout_addModelLayer(id)
             => ent[id].mounted /\ ent[id].layer = 0 ]_vars

C29_ControlIffHandlers ==
  /\ InteractionEnabled \/ InteractionDisabled
  /\ map.navOnMap <=> InteractionEnabled
  /\ map.navOnMap <=> map.controls > 0
  /\ map.controls <= 1

\* C29 witness: the panel was closed while the focus flight was in the air:
\* enableMapInteractions ran with the control present, then the 'moveend' of
\* the interrupted flight ran disableMapInteractions; the restore flight is
\* in the air with the handlers disabled and no control on the map
C29_Witness ==
  /\ Restoring /\ selectedBus = Null
  /\ InteractionDisabled
  /\ ~map.navOnMap /\ map.controls = 0

\* C30: when the route layer effect runs for a new RouteData after an
\* earlier one was drawn, every line layer and source of the earlier route
\* is off the map once the clean-up is over, before the first addSource,
\* and the run ends without an addSource on an id that is present.
C30_EarlierRouteRemovedFirst ==
  [][ \A rd \in RouteProps :
        (/\ RouteLayer_update(rd)
         /\ \E i \in 0..(MaxPaths - 1) : HasLayer(map, RouteLayerId(i)))
        => LET c == cleanRouteSources(map, routeLayer.routeSourcesRef)
           IN /\ \A i \in 0..(MaxPaths - 1) :
                   ~HasLayer(c, RouteLayerId(i)) /\ i \notin c.sources
              /\ ~routeLayer'.error ]_vars

\* C25: when polls overlap, a response that arrives after the response of a
\* poll issued later has been applied changes neither the entity set nor
\* the selected entity nor the camera: the state keeps reflecting the most
\* recently issued poll.
C25_LateResponseIgnored ==
  [][ \A i \in 1..MaxPending, resp \in Responses :
        (loadBusData_ordered(i, resp) /\ polls[i].late)
        => /\ buses' = buses
           /\ selectedBus' = selectedBus
           /\ map' = map ]_vars

====
